---------------------------- MODULE Spec2Model ----------------------------
(***************************************************************************)
(* A model of the two components of hys-manage-web that carry logic:       *)
(*                                                                         *)
(*   - the ProTable request adapter, src/src/utils/proTableRequest.ts      *)
(*     (createProTableRequest and getValueByPath);                         *)
(*   - the image upload widget, src/src/components/ImageUpload/index.tsx,  *)
(*     which holds three versions of the component: the multi-image one    *)
(*     with maxCount (lines 1-461), the auto-commit one (463-740) and the  *)
(*     single-image one with a Confirm button (742-1141).                  *)
(*                                                                         *)
(* JavaScript values are tagged records, so that typeof, truthiness, ||    *)
(* and ?? are computed as the language computes them.                      *)
(***************************************************************************)
EXTENDS Integers, Sequences, FiniteSets, TLC

VARIABLES
    \* ---- request adapter ----
    options,        \* the options object given to createProTableRequest
    params,         \* the ProTable params object of the current request
    apiBehaviour,   \* what apiFunction does when it is called
    pc,             \* "idle" | "start" | "awaiting" | "done" : position in the request function
    apiParams,      \* the argument apiFunction was called with (NotCalled before)
    result,         \* the settlement of the promise the request function returns
    \* ---- upload widget: props ----
    variant,        \* "multi" (index.tsx 1-461) | "single" (index.tsx 742-1141)
                    \* | "auto" (index.tsx 463-740)
    maxCount,       \* the maxCount prop (the single-image version has none: 1)
    disabled,       \* the disabled prop
    allowedExtensions,  \* the allowedExtensions prop
    \* ---- upload widget: React state ----
    modalVisible,
    fileList,       \* the entries of the dialog, each [uid, status] and, once done, url
    imageUrls,      \* multi: the committed URLs
    imageUrl,       \* single, auto: the committed URL, a string or undefined
    uploading,      \* auto: the uploading flag
    candidate,      \* the file the validation gates are tried on (NoFile elsewhere)
    \* ---- upload widget: what the last handler did ----
    lastOp,         \* the handler that ran last
    newFilesCount,  \* the number of files it was given (a selection; else 0)
    calls,          \* the onChange / onSuccess calls it made, in order
    messages        \* the messages it showed, in order

adapterVars == <<options, params, apiBehaviour, pc, apiParams, result>>

widgetVars ==
    <<variant, maxCount, disabled, modalVisible, fileList, imageUrls, imageUrl,
      uploading, allowedExtensions, candidate,
      lastOp, newFilesCount, calls, messages>>

vars == <<adapterVars, widgetVars>>

(***************************************************************************)
(* JavaScript values                                                       *)
(***************************************************************************)
Undefined == [t |-> "undefined"]
Null == [t |-> "null"]
NaN == [t |-> "NaN"]
Bool(b) == [t |-> "boolean", b |-> b]
\* A number is kept in tenths, so that 1.5 is a value: Num(2) is 2, Tenths(15) is 1.5.
Tenths(n) == [t |-> "number", tenths |-> n]
Num(n) == Tenths(10 * n)
Str(s) == [t |-> "string", s |-> s]
Arr(a) == [t |-> "array", a |-> a]
Obj(o) == [t |-> "object", o |-> o]

\* The object with no own property.
EmptyObj == Obj(<<>>)

\* typeof v
TypeOf(v) ==
    CASE v.t = "null" -> "object"
      [] v.t = "array" -> "object"
      [] v.t = "NaN" -> "number"
      [] OTHER -> v.t

\* ToBoolean(v): what  if (v), v || w  test.
Truthy(v) ==
    CASE v.t \in {"undefined", "null", "NaN"} -> FALSE
      [] v.t = "boolean" -> v.b
      [] v.t = "number" -> v.tenths # 0
      [] v.t = "string" -> v.s # ""
      [] OTHER -> TRUE

\* a || b
JsOr(a, b) == IF Truthy(a) THEN a ELSE b

\* a ?? b
JsNullish(a, b) == IF a.t \in {"undefined", "null"} THEN b ELSE a

\* Array.isArray(v)
IsArray(v) == v.t = "array"

\* value[key] for a value that is not null or undefined: an own property of an
\* object, the length of an array, undefined otherwise.
GetProp(v, key) ==
    CASE v.t = "object" -> IF key \in DOMAIN v.o THEN v.o[key] ELSE Undefined
      [] v.t = "array" -> IF key = "length" THEN Num(Len(v.a)) ELSE Undefined
      [] OTHER -> Undefined

\* { ...o, [key]: value }
SetProp(o, key, value) ==
    [k \in DOMAIN o \cup {key} |-> IF k = key THEN value ELSE o[k]]

\* const { a, b, ...rest } = o : the rest object
Without(o, keys) == [k \in DOMAIN o \ keys |-> o[k]]

\* { ...a, ...b } on property maps
Spread(a, b) ==
    [k \in DOMAIN a \cup DOMAIN b |-> IF k \in DOMAIN b THEN b[k] ELSE a[k]]


\* The default of the allowedExtensions prop, a name or an extension being the
\* sequence of its characters.
DefaultAllowedExtensions ==
    <<<<"p", "n", "g">>, <<"j", "p", "e", "g">>, <<"j", "p", "g">>, <<"s", "v", "g">>>>

NoFile == [name |-> <<>>, type |-> "", size |-> 0]

\* The widget as it is constructed with no value: what the adapter's
\* specifications hold it at.
WidgetIdle ==
    /\ variant = "multi" /\ maxCount = 1 /\ disabled = FALSE
    /\ modalVisible = FALSE /\ fileList = <<>>
    /\ imageUrls = <<>> /\ imageUrl = Undefined /\ uploading = FALSE
    /\ allowedExtensions = DefaultAllowedExtensions /\ candidate = NoFile
    /\ lastOp = "init" /\ newFilesCount = 0 /\ calls = <<>> /\ messages = <<>>

\* No request under way: what the widget's specifications hold the adapter at.
AdapterIdle ==
    /\ options = <<>> /\ params = <<>> /\ apiBehaviour = [kind |-> "rejects"]
    /\ pc = "idle" /\ apiParams = [called |-> FALSE] /\ result = [state |-> "pending"]

(***************************************************************************)
(* The request adapter: src/src/utils/proTableRequest.ts                   *)
(***************************************************************************)

\* path.split('.') : a path string is given as the sequence of its pieces, a "."
\* piece being a separator; pieces between two separators are concatenated, and
\* two adjacent separators enclose the empty key, as split does.
Split(path) ==
    LET F[i \in 0..Len(path)] ==
            IF i = 0 THEN <<"">>
            ELSE LET prev == F[i - 1]
                 IN  IF path[i] = "."
                     THEN Append(prev, "")
                     ELSE [prev EXCEPT ![Len(prev)] = prev[Len(prev)] \o path[i]]
    IN  F[Len(path)]

\* The loop of getValueByPath over the keys left to read.
RECURSIVE WalkKeys(_, _)
WalkKeys(value, keys) ==
    IF keys = <<>> THEN value
    ELSE IF value.t \in {"undefined", "null"} \/ TypeOf(value) # "object"
         THEN Undefined
         ELSE WalkKeys(GetProp(value, Head(keys)), Tail(keys))

getValueByPath(obj, path) == WalkKeys(obj, Split(path))

\* defaultOptions.paramTransform and defaultOptions.responseTransform
defaultParamTransform ==
    [currentTo |-> "page", pageSizeTo |-> "per", transformParams |-> TRUE]

defaultResponseTransform ==
    [dataPath |-> <<"data", ".", "list">>, totalPath |-> <<"data", ".", "total">>]

\* options.x || {}
OptionOr(opts, key) == IF key \in DOMAIN opts THEN opts[key] ELSE <<>>

\* The config object createProTableRequest builds from the options.
Config(opts) ==
    [paramTransform |-> Spread(defaultParamTransform, OptionOr(opts, "paramTransform")),
     responseTransform |->
         Spread(defaultResponseTransform, OptionOr(opts, "responseTransform")),
     transformParams |->
         IF "transformParams" \in DOMAIN opts THEN opts.transformParams ELSE "none",
     transformResponse |->
         IF "transformResponse" \in DOMAIN opts THEN opts.transformResponse ELSE "none"]

\* s || d for a string or path s: the empty one is falsy.
StrOr(s, d) == IF s = "" THEN d ELSE s
PathOr(p, d) == IF p = <<>> THEN d ELSE p

\* What a thrown exception and a returned value look like to the try block.
Threw == [threw |-> TRUE]
Returned(v) == [threw |-> FALSE, value |-> v]

\* The result of the catch block.
CatchResult ==
    [data |-> Arr(<<>>), success |-> Bool(FALSE), total |-> Num(0)]

\* The custom transformParams functions a caller may pass.
CustomTransformParams(fn, p) ==
    CASE fn = "throws" -> Threw
      [] fn = "identity" -> Returned(p)

\* A transformation that adds the renamed fields and forgets to take current and
\* pageSize out of the rest.
DefaultTransformParamsBroken(cfg, p) ==
    LET current == IF "current" \in DOMAIN p THEN p.current ELSE Undefined
        pageSize == IF "pageSize" \in DOMAIN p THEN p.pageSize ELSE Undefined
    IN  SetProp(SetProp(p, StrOr(cfg.paramTransform.currentTo, "page"), current),
                StrOr(cfg.paramTransform.pageSizeTo, "per"), pageSize)

\* const { current, pageSize, ...restParams } = params; apiParams = {...}
DefaultTransformParams(cfg, p) ==
    LET current == IF "current" \in DOMAIN p THEN p.current ELSE Undefined
        pageSize == IF "pageSize" \in DOMAIN p THEN p.pageSize ELSE Undefined
        restParams == Without(p, {"current", "pageSize"})
    IN  SetProp(SetProp(restParams,
                        StrOr(cfg.paramTransform.currentTo, "page"), current),
                StrOr(cfg.paramTransform.pageSizeTo, "per"), pageSize)

\* The parameter transformation of the request function: the three branches.
TransformParams(cfg, p) ==
    IF cfg.transformParams # "none"
    THEN CustomTransformParams(cfg.transformParams, p)
    ELSE IF cfg.paramTransform.transformParams # FALSE
         THEN Returned(DefaultTransformParams(cfg, p))
         ELSE Returned(p)

\* The custom transformResponse functions a caller may pass.
Row(i) == Obj([id |-> Num(i)])

CustomTransformResponse(fn, response) ==
    CASE fn = "throws" -> Threw
      [] fn = "fixed" ->
            Returned([data |-> Arr(<<Row(1)>>), success |-> Bool(TRUE), total |-> Num(1)])

\* Two other readings of the success field: response.success || true, and
\* response.success ?? false.
SuccessOfTruthy(response) == JsOr(GetProp(response, "success"), Bool(TRUE))
SuccessOfFalse(response) == JsNullish(GetProp(response, "success"), Bool(FALSE))

\* response.success ?? true
SuccessOf(response) == JsNullish(GetProp(response, "success"), Bool(TRUE))

\* The data without the Array.isArray test.
DataOfUnchecked(data) == data

\* Array.isArray(data) ? data : []
DataOf(data) == IF IsArray(data) THEN data ELSE Arr(<<>>)

\* The total without the typeof test.
TotalOfUnchecked(total) == total

\* typeof total === 'number' ? total : 0
TotalOf(total) == IF TypeOf(total) = "number" THEN total ELSE Num(0)

\* The default response transformation. Reading response.data of null or
\* undefined throws a TypeError.
DefaultTransformResponse(cfg, response) ==
    IF response.t \in {"undefined", "null"}
    THEN Threw
    ELSE LET data == JsOr(getValueByPath(response,
                              PathOr(cfg.responseTransform.dataPath,
                                     <<"data", ".", "list">>)),
                          Arr(<<>>))
             total == JsOr(getValueByPath(response,
                               PathOr(cfg.responseTransform.totalPath,
                                      <<"data", ".", "total">>)),
                           Num(0))
         IN  Returned([data |-> DataOf(data),
                       success |-> SuccessOf(response),
                       total |-> TotalOf(total)])

TransformResponse(cfg, response) ==
    IF cfg.transformResponse # "none"
    THEN CustomTransformResponse(cfg.transformResponse, response)
    ELSE DefaultTransformResponse(cfg, response)

\* Settlements of the promise the request function returns.
Pending == [state |-> "pending"]
Fulfilled(v) == [state |-> "fulfilled", value |-> v]

\* The argument of the backend call.
NotCalled == [called |-> FALSE]
Called(p) == [called |-> TRUE, arg |-> p]

\* A wrapper without the catch: a throw rejects the returned promise.
CaughtRethrows(outcome) ==
    IF outcome.threw THEN [state |-> "rejected"] ELSE Fulfilled(outcome.value)

\* try { ... } catch: a throw inside the try block ends in the catch result.
Caught(outcome) ==
    IF outcome.threw THEN Fulfilled(CatchResult) ELSE Fulfilled(outcome.value)

(***************************************************************************)
(* Inputs of the request adapter                                           *)
(***************************************************************************)

\* The property maps that hold key k with one of the values vs, or lack it.
Optional(k, vs) == {<<>>} \cup {k :> v : v \in vs}

\* The property maps made of one map of A and one of B (on distinct keys).
Merge(A, B) == {a @@ b : a \in A, b \in B}

\* options.paramTransform: absent, the documented renaming, a renaming onto the
\* other default name, an empty name, and the transformation switched off.
ParamTransformChoices ==
    {[currentTo |-> "pageNum", pageSizeTo |-> "pageSize"],
     [currentTo |-> "per"],
     [currentTo |-> ""],
     [transformParams |-> FALSE]}

\* options.responseTransform: absent, the documented paths, an empty path, a
\* one-key path.
ResponseTransformChoices ==
    {[dataPath |-> <<"data", ".", "items">>, totalPath |-> <<"data", ".", "count">>],
     [dataPath |-> <<>>],
     [dataPath |-> <<"rows">>, totalPath |-> <<"data", ".", "list", ".", "length">>]}

AllOptions ==
    Merge(Merge(Optional("paramTransform", ParamTransformChoices),
                Optional("transformParams", {"throws", "identity"})),
          Merge(Optional("responseTransform", ResponseTransformChoices),
                Optional("transformResponse", {"throws", "fixed"})))

\* Options that leave the parameter side at its default.
ResponseSideOptions ==
    {m \in AllOptions : DOMAIN m \subseteq {"responseTransform", "transformResponse"}}

\* The ProTable params: current and pageSize (each possibly absent) and filter
\* fields, among them fields named like the backend's page and per.
AllParams ==
    Merge(Merge(Optional("current", {Num(1), Num(2)}), Optional("pageSize", {Num(15)})),
          Merge(Optional("name", {Str("cardio")}),
                Merge(Optional("page", {Num(7)}), Optional("per", {Num(9)}))))

\* The example request of the documentation.
ExampleParams ==
    [current |-> Num(2), pageSize |-> Num(15), name |-> Str("cardio")]

\* Backend responses: any JSON-like value at data.list, data.total and success.
ListValues ==
    {Arr(<<>>), Arr(<<Row(1)>>), Arr(<<Row(2), Row(1)>>), Null, Str("rows"), EmptyObj}

TotalValues ==
    {Num(0), Num(1), Num(2), Num(-1), Tenths(15), NaN, Str("5"), Null}

DataObjects ==
    {Obj(m) : m \in Merge(Optional("list", ListValues), Optional("total", TotalValues))}

DataValues ==
    DataObjects \cup
    {Null, Str("x"), Arr(<<Row(1)>>),
     Obj([items |-> Arr(<<Row(2)>>), count |-> Num(1)])}

SuccessValues == {Bool(TRUE), Bool(FALSE), Null, Num(0)}

ResponseObjects ==
    {Obj(m) : m \in Merge(Merge(Optional("data", DataValues),
                                Optional("success", SuccessValues)),
                          Optional("rows", {Arr(<<Row(1)>>)}))}

AllResponses == ResponseObjects \cup {Undefined, Null, Str("oops")}

\* The example response of the documentation.
ExampleResponse ==
    Obj([success |-> Bool(TRUE),
         data |-> Obj([list |-> Arr(<<Row(1)>>), total |-> Num(1)])])

\* What apiFunction may do: throw, return a promise that rejects, or return a
\* promise that resolves with a response.
Resolves(r) == [kind |-> "resolves", response |-> r]

AllBehaviours ==
    {[kind |-> "throws"], [kind |-> "rejects"]} \cup {Resolves(r) : r \in AllResponses}

FewBehaviours ==
    {[kind |-> "throws"], [kind |-> "rejects"], Resolves(ExampleResponse), Resolves(Null)}

(***************************************************************************)
(* The request function as a state machine                                 *)
(***************************************************************************)
config == Config(options)

\* The try block up to the await: transform the params, call apiFunction.
CallApi ==
    /\ pc = "start"
    /\ LET tp == TransformParams(config, params)
       IN  IF tp.threw
           THEN /\ result' = Caught(tp)
                /\ pc' = "done"
                /\ UNCHANGED apiParams
           ELSE /\ apiParams' = Called(tp.value)
                /\ IF apiBehaviour.kind = "throws"
                   THEN result' = Caught(Threw) /\ pc' = "done"
                   ELSE pc' = "awaiting" /\ UNCHANGED result
    /\ UNCHANGED <<options, params, apiBehaviour>>
    /\ UNCHANGED widgetVars

\* The awaited promise settles: a rejection goes to the catch block, a response
\* through the response transformation.
ApiSettles ==
    /\ pc = "awaiting"
    /\ result' = IF apiBehaviour.kind = "rejects"
                 THEN Caught(Threw)
                 ELSE Caught(TransformResponse(config, apiBehaviour.response))
    /\ pc' = "done"
    /\ UNCHANGED <<options, params, apiBehaviour, apiParams>>
    /\ UNCHANGED widgetVars

AdapterNext == CallApi \/ ApiSettles

AdapterStart ==
    /\ pc = "start"
    /\ apiParams = NotCalled
    /\ result = Pending

\* Every configuration and every params object, a few backend behaviours.
InitRequests ==
    /\ options \in AllOptions
    /\ params \in AllParams
    /\ apiBehaviour \in FewBehaviours
    /\ AdapterStart
    /\ WidgetIdle

\* Every backend behaviour, every response-side configuration, two requests.
InitResponses ==
    /\ options \in ResponseSideOptions
    /\ params \in {ExampleParams, <<>>}
    /\ apiBehaviour \in AllBehaviours
    /\ AdapterStart
    /\ WidgetIdle

SpecRequests == InitRequests /\ [][AdapterNext]_vars

SpecResponses == InitResponses /\ [][AdapterNext]_vars

(***************************************************************************)
(* Properties of the request adapter                                       *)
(***************************************************************************)

\* The request function has returned and the backend call had this outcome.
BackendFailed ==
    pc = "done" /\ apiParams.called /\ apiBehaviour.kind \in {"throws", "rejects"}

BackendResolved == pc = "done" /\ apiBehaviour.kind = "resolves"

\* The default parameter transformation with the default names.
DefaultConfiguration == options = <<>>

\* The default response transformation reading data.list and data.total.
DefaultResponseTransformation ==
    /\ config.transformResponse = "none"
    /\ PathOr(config.responseTransform.dataPath, <<"data", ".", "list">>)
           = <<"data", ".", "list">>
    /\ PathOr(config.responseTransform.totalPath, <<"data", ".", "total">>)
           = <<"data", ".", "total">>

\* The response has an object at data that holds field k.
HasDataField(r, k) ==
    /\ r.t = "object"
    /\ "data" \in DOMAIN r.o
    /\ r.o.data.t = "object"
    /\ k \in DOMAIN r.o.data.o

DataField(r, k) == r.o.data.o[k]

ListIsArray(r) == HasDataField(r, "list") /\ DataField(r, "list").t = "array"

TotalIsNumber(r) ==
    HasDataField(r, "total") /\ DataField(r, "total").t \in {"number", "NaN"}

\* "No data object, data.list not an array, or data.total not a number".
Malformed(r) == ~ListIsArray(r) \/ ~TotalIsNumber(r)

IsNonNegativeInteger(x) == x.t = "number" /\ x.tenths >= 0 /\ x.tenths % 10 = 0

FailureResult == [data |-> Arr(<<>>), success |-> Bool(FALSE), total |-> Num(0)]

\* C1: whatever the configuration and the params, when the backend call throws
\* or rejects, the promise of the request function is fulfilled (not rejected)
\* with exactly {data: [], success: false, total: 0}.
C1_BackendFailureIsAbsorbed ==
    /\ result.state \in {"pending", "fulfilled"}
    /\ BackendFailed =>
          result = [state |-> "fulfilled", value |-> FailureResult]

C1_Witness ==
    /\ BackendFailed
    /\ apiBehaviour.kind = "rejects"
    /\ "paramTransform" \in DOMAIN options
    /\ result = [state |-> "fulfilled", value |-> FailureResult]

\* A request with current >= 1 and pageSize > 0.
ValidPagination ==
    /\ "current" \in DOMAIN params /\ params.current.t = "number"
    /\ params.current.tenths >= 10
    /\ "pageSize" \in DOMAIN params /\ params.pageSize.t = "number"
    /\ params.pageSize.tenths > 0

\* The backend got page = current and per = pageSize, no current and no
\* pageSize, and each field of the request named in keys, unchanged.
RenamedPreserving(keys) ==
    LET a == apiParams.arg
    IN  /\ "page" \in DOMAIN a /\ a.page = params.current
        /\ "per" \in DOMAIN a /\ a.per = params.pageSize
        /\ "current" \notin DOMAIN a
        /\ "pageSize" \notin DOMAIN a
        /\ \A k \in keys : k \in DOMAIN a /\ a[k] = params[k]

\* C2 as stated: under the default configuration a valid pagination request
\* reaches the backend with page = current, per = pageSize, without current and
\* pageSize, and with every other field of the request unchanged.
C2_Original ==
    (apiParams.called /\ DefaultConfiguration /\ ValidPagination) =>
        RenamedPreserving(DOMAIN params \ {"current", "pageSize"})

\* C2 amended: as C2, for every other field except one named page or per, which
\* the injected page and per overwrite.
C2_RenamesAndPreservesOtherFields ==
    (apiParams.called /\ DefaultConfiguration /\ ValidPagination) =>
        RenamedPreserving(DOMAIN params \ {"current", "pageSize", "page", "per"})

C2_Witness ==
    /\ apiParams.called /\ DefaultConfiguration /\ ValidPagination
    /\ params = [current |-> Num(2), pageSize |-> Num(15), name |-> Str("cardio")]
    /\ apiParams.arg = [page |-> Num(2), per |-> Num(15), name |-> Str("cardio")]

\* C3: under the default response transformation, a response without data.total
\* is adapted to total 0, and a response whose data.list is absent or not an
\* array (data itself may be absent or no object) is adapted to data [].
C3_MissingFieldsTakeDefaults ==
    (BackendResolved /\ DefaultResponseTransformation) =>
        LET r == apiBehaviour.response
        IN  /\ ~HasDataField(r, "total") => result.value.total = Num(0)
            /\ ~ListIsArray(r) => result.value.data = Arr(<<>>)

C3_Witness ==
    /\ BackendResolved /\ DefaultResponseTransformation
    /\ apiBehaviour.response =
           Obj([success |-> Bool(TRUE), data |-> Obj([list |-> Str("rows")])])
    /\ result.value = [data |-> Arr(<<>>), success |-> Bool(TRUE), total |-> Num(0)]

\* C4 as stated: a malformed payload (no data object, data.list not an array, or
\* data.total not a number) is adapted to exactly {data: [], success: false,
\* total: 0}, like a thrown error.
C4_Original ==
    (BackendResolved /\ DefaultResponseTransformation
        /\ Malformed(apiBehaviour.response)) =>
        result.value = FailureResult

\* The success flag of a response: its success field, true when the field is
\* absent or null.
SuccessFieldOrTrue(r) ==
    IF r.t = "object" /\ "success" \in DOMAIN r.o /\ r.o.success.t # "null"
    THEN r.o.success
    ELSE Bool(TRUE)

\* C4 amended: a malformed payload is not reported as a failure. Each malformed
\* part takes its default (data [] when data.list is no array, total 0 when
\* data.total is no number) and success is the response's own success field,
\* true when absent; only a response that is itself null or undefined ends in
\* {data: [], success: false, total: 0}.
C4_MalformedPayloadKeepsSuccess ==
    (BackendResolved /\ DefaultResponseTransformation
        /\ Malformed(apiBehaviour.response)) =>
        LET r == apiBehaviour.response
        IN  IF r.t \in {"undefined", "null"}
            THEN result.value = FailureResult
            ELSE /\ result.value.success = SuccessFieldOrTrue(r)
                 /\ ~ListIsArray(r) => result.value.data = Arr(<<>>)
                 /\ ~TotalIsNumber(r) => result.value.total = Num(0)

C4_Witness ==
    /\ BackendResolved /\ DefaultResponseTransformation
    /\ apiBehaviour.response = Obj([success |-> Bool(TRUE)])
    /\ result.value = [data |-> Arr(<<>>), success |-> Bool(TRUE), total |-> Num(0)]

\* C5 as stated: under the default response transformation, whatever the
\* response carries and whatever the outcome of the call, the adapted data is an
\* array and the adapted total a non-negative integer.
C5_Original ==
    (pc = "done" /\ DefaultResponseTransformation) =>
        /\ result.value.data.t = "array"
        /\ IsNonNegativeInteger(result.value.total)

\* C5 amended: the adapted data is an array and the adapted total a number; the
\* total is a non-negative integer except when the response's data.total is a
\* negative or fractional number, which is passed through as it is.
C5_DataIsArrayTotalIsNumber ==
    (pc = "done" /\ DefaultResponseTransformation) =>
        /\ result.value.data.t = "array"
        /\ result.value.total.t = "number"
        /\ \/ IsNonNegativeInteger(result.value.total)
           \/ /\ apiBehaviour.kind = "resolves"
              /\ HasDataField(apiBehaviour.response, "total")
              /\ result.value.total = DataField(apiBehaviour.response, "total")

C5_Witness ==
    /\ BackendResolved /\ DefaultResponseTransformation
    /\ HasDataField(apiBehaviour.response, "total")
    /\ DataField(apiBehaviour.response, "total") = Tenths(15)
    /\ result.value.total = Tenths(15)

\* The success field of a response, true when the field is absent.
SuccessFieldIfPresent(r) ==
    IF "success" \in DOMAIN r.o THEN r.o.success ELSE Bool(TRUE)

\* C6 as stated: a response whose data.list is an array L and whose data.total
\* is a number N is adapted to data L, total N and the response's success field,
\* true when that field is absent.
C6_Original ==
    (BackendResolved /\ DefaultResponseTransformation
        /\ ListIsArray(apiBehaviour.response)
        /\ TotalIsNumber(apiBehaviour.response)) =>
        LET r == apiBehaviour.response
        IN  result.value = [data |-> DataField(r, "list"),
                            success |-> SuccessFieldIfPresent(r),
                            total |-> DataField(r, "total")]

\* C6 amended: such a response is adapted to data L (same rows, same order), to
\* total N, or 0 when N is NaN, and to the response's success field, or true
\* when that field is absent or null.
C6_WellFormedResponsePassesThrough ==
    (BackendResolved /\ DefaultResponseTransformation
        /\ ListIsArray(apiBehaviour.response)
        /\ TotalIsNumber(apiBehaviour.response)) =>
        LET r == apiBehaviour.response
            N == DataField(r, "total")
        IN  result.value = [data |-> DataField(r, "list"),
                            success |-> SuccessFieldOrTrue(r),
                            total |-> IF N.t = "NaN" THEN Num(0) ELSE N]

C6_Witness ==
    /\ BackendResolved /\ DefaultResponseTransformation
    /\ apiBehaviour.response =
           Obj([success |-> Bool(FALSE),
                data |-> Obj([list |-> Arr(<<Row(2), Row(1)>>), total |-> Num(2)])])
    /\ result.value =
           [data |-> Arr(<<Row(2), Row(1)>>), success |-> Bool(FALSE), total |-> Num(2)]

(***************************************************************************)
(* The upload widget: src/src/components/ImageUpload/index.tsx             *)
(*                                                                         *)
(* The antd Upload component is taken as the specification describes it: a *)
(* file that beforeUpload admits enters fileList with status uploading and *)
(* customRequest is called for it; customRequest's onSuccess makes the     *)
(* entry done with its response, onError makes it error; either is         *)
(* reported through onChange.                                              *)
(***************************************************************************)

\* The global the upload response's path is appended to.
API_URL == "http://cdn"

\* The default of the maxSize prop, in MB.
maxSize == 5

\* s.slice(0, n)
Slice(s, n) == SubSeq(s, 1, IF n < Len(s) THEN n ELSE Len(s))

\* list.some(file => file.status === st)
SomeStatus(list, st) == \E i \in 1..Len(list) : list[i].status = st

\* A count of the entries still uploading only, the done ones left out.
CountUploadingOnly(list) ==
    Cardinality({i \in 1..Len(list) : list[i].status = "uploading"})

\* list.filter(f => f.status === 'uploading' || f.status === 'done').length
CountPending(list) ==
    Cardinality({i \in 1..Len(list) : list[i].status \in {"uploading", "done"}})

\* A removal that drops the last element whatever the index.
RemoveLast(s, index) == SubSeq(s, 1, Len(s) - 1)

\* s.filter((_, i) => i !== index), index counted from 1
RemoveAt(s, index) ==
    [i \in 1..(Len(s) - 1) |-> IF i < index THEN s[i] ELSE s[i + 1]]

\* c.toLowerCase() on the characters file names are made of here.
LowerChar(c) ==
    CASE c = "P" -> "p" [] c = "N" -> "n" [] c = "G" -> "g"
      [] c = "J" -> "j" [] c = "S" -> "s" [] c = "V" -> "v"
      [] c = "I" -> "i" [] c = "F" -> "f" [] c = "E" -> "e"
      [] OTHER -> c

toLowerCase(name) == [i \in 1..Len(name) |-> LowerChar(name[i])]

\* name.lastIndexOf('.'), counted from 1: 0 when there is no '.'.
lastIndexOfDot(name) ==
    LET dots == {i \in 1..Len(name) : name[i] = "."}
    IN  IF dots = {} THEN 0 ELSE CHOOSE i \in dots : \A j \in dots : j <= i

\* mimeTypeMap[ext] || []
mimeTypeMap(ext) ==
    CASE ext = <<"p", "n", "g">> -> {"image/png"}
      [] ext = <<"j", "p", "e", "g">> -> {"image/jpeg", "image/jpg"}
      [] ext = <<"j", "p", "g">> -> {"image/jpeg", "image/jpg"}
      [] ext = <<"s", "v", "g">> -> {"image/svg+xml"}
      [] OTHER -> {}

\* A validateFileType that lets a declared type of the table stand in for the
\* extension.
validateFileTypeTrustsMime(file) ==
    LET fileName == toLowerCase(file.name)
        lastDotIndex == lastIndexOfDot(fileName)
        fileExtension == SubSeq(fileName, lastDotIndex + 1, Len(fileName))
    IN  IF file.type # "" THEN file.type \in {"image/png", "image/jpeg", "image/jpg", "image/svg+xml"}
        ELSE /\ lastDotIndex # 0
             /\ \E i \in 1..Len(allowedExtensions) :
                    toLowerCase(allowedExtensions[i]) = fileExtension

\* validateFileType(file): the extension gate, then the MIME gate.
validateFileType(file) ==
    LET fileName == toLowerCase(file.name)
        lastDotIndex == lastIndexOfDot(fileName)
        fileExtension == SubSeq(fileName, lastDotIndex + 1, Len(fileName))
        isValidExtension ==
            \E i \in 1..Len(allowedExtensions) :
                toLowerCase(allowedExtensions[i]) = fileExtension
    IN  IF lastDotIndex = 0 THEN FALSE
        ELSE IF ~isValidExtension THEN FALSE
        ELSE IF file.type # "" THEN file.type \in mimeTypeMap(fileExtension)
        ELSE TRUE

\* A size gate that lets a file of exactly maxSize MB through.
isValidSizeInclusive(file) == file.size <= maxSize * 1024 * 1024

\* file.size / 1024 / 1024 < maxSize (the division by 2^20 is exact).
isValidSize(file) == file.size < maxSize * 1024 * 1024

\* The verdict of beforeUpload on one file.
Admit == [admit |-> TRUE, message |-> <<>>]
Ignore(msg) == [admit |-> FALSE, message |-> <<msg>>]

\* A count gate that counts the file alone, not the batch it came in.
OverCountNoBatch(batch) == Len(imageUrls) + CountPending(fileList) + 1 > maxCount

\* The count gate of the multi-image beforeUpload.
OverCount(batch) ==
    Len(imageUrls) + CountPending(fileList) + Len(batch) > maxCount

\* beforeUpload(file, currentFileList) of the multi-image version.
beforeUploadMulti(file, batch) ==
    IF OverCount(batch) THEN Ignore("tooMany")
    ELSE IF ~isValidSize(file) THEN Ignore("tooLarge")
    ELSE IF ~validateFileType(file) THEN Ignore("badType")
    ELSE Admit

\* beforeUpload(file) of the single-image version.
beforeUploadSingle(file, batch) ==
    IF ~isValidSize(file) THEN Ignore("tooLarge")
    ELSE IF ~validateFileType(file) THEN Ignore("badType")
    ELSE Admit

beforeUpload(file, batch) ==
    IF variant = "multi"
    THEN beforeUploadMulti(file, batch)
    ELSE beforeUploadSingle(file, batch)

\* The disabled prop of the Dragger.
DraggerDisabled ==
    IF variant = "multi"
    THEN SomeStatus(fileList, "uploading") \/ Len(imageUrls) >= maxCount
    ELSE IF variant = "single" THEN SomeStatus(fileList, "uploading")
    ELSE uploading

\* A Confirm button that is enabled as soon as an entry is done, an upload
\* under way or not.
ConfirmDisabledWithoutDoneOnly == ~SomeStatus(fileList, "done")

\* The disabled prop of the Confirm button of the footer.
ConfirmDisabled ==
    ~SomeStatus(fileList, "done") \/ SomeStatus(fileList, "uploading")

\* The outcome of one upload call as handleUpload sees it: the entry's new
\* fields and the message shown. A response is a property map with success,
\* data and errorMessage, each possibly absent.
Field(r, k, d) == IF k \in DOMAIN r THEN r[k] ELSE d

\* error?.errorMessage || error?.message || '上传失败，请重试'
ErrorText(error) ==
    IF Field(error, "errorMessage", "") # "" THEN error.errorMessage
    ELSE IF Field(error, "message", "") # "" THEN error.message
    ELSE "uploadFailedRetry"

\* A handleUpload that looks at response.success alone.
handleUploadOutcomeLenient(outcome) ==
    IF outcome.threw
    THEN [status |-> "error", message |-> <<ErrorText(outcome.error)>>]
    ELSE IF Field(outcome.value, "success", FALSE)
         THEN [status |-> "done", url |-> API_URL \o Field(outcome.value, "data", ""),
               message |-> <<>>]
         ELSE [status |-> "error", message |-> <<"uploadFailed">>]

handleUploadOutcome(outcome) ==
    IF outcome.threw
    THEN [status |-> "error", message |-> <<ErrorText(outcome.error)>>]
    ELSE LET response == outcome.value
         IN  IF Field(response, "success", FALSE) /\ Field(response, "data", "") # ""
             THEN [status |-> "done", url |-> API_URL \o response.data,
                   message |-> <<>>]
             ELSE [status |-> "error",
                   message |-> <<ErrorText(
                       [message |-> IF Field(response, "errorMessage", "") # ""
                                    THEN response.errorMessage
                                    ELSE "uploadFailed"])>>]

\* The entry after the upload's onChange: a done entry takes the response's url.
SettledEntry(entry, o) ==
    IF o.status = "done"
    THEN [uid |-> entry.uid, status |-> "done", url |-> o.url]
    ELSE [uid |-> entry.uid, status |-> "error"]

\* file.status === 'done' && file.url
IsDoneWithUrl(entry) ==
    entry.status = "done" /\ "url" \in DOMAIN entry /\ entry.url # ""

\* fileList.filter(file => file.status === 'done' && file.url).map(file => file.url)
DoneUrls(list) ==
    LET done == SelectSeq(list, IsDoneWithUrl)
    IN  [i \in 1..Len(done) |-> done[i].url]

\* A callback invocation.
Call(fn, arg) == [fn |-> fn, arg |-> arg]
Notify(arg) == <<Call("onChange", arg), Call("onSuccess", arg)>>

\* The value given to the callbacks by the multi-image handleConfirm.
ConfirmResult(allUrls) == IF maxCount = 1 THEN Str(allUrls[1]) ELSE Arr(allUrls)

\* The merged URLs with the new ones put first.
AllUrlsNewFirst(new) == Slice(new \o imageUrls, maxCount)

\* The merged URLs without the slice.
AllUrlsUnbounded(new) == imageUrls \o new

\* [...imageUrls, ...newUploadedFiles].slice(0, maxCount)
AllUrls(new) == Slice(imageUrls \o new, maxCount)

\* The uids of the n entries added next: the smallest ones not in fileList.
RECURSIVE FreshUids(_, _)
FreshUids(used, n) ==
    IF n = 0 THEN <<>>
    ELSE LET u == CHOOSE x \in 1..(Cardinality(used) + 1) : x \notin used
         IN  <<u>> \o FreshUids(used \cup {u}, n - 1)

(***************************************************************************)
(* Inputs of the upload widget                                             *)
(***************************************************************************)

\* Bounds of the model.
MaxCountBound == 2
MaxBatch == 2
MaxEntries == 2

File(name, type, size) == [name |-> name, type |-> type, size |-> size]

\* The files a user may select or drop.
CandidateFiles ==
    {File(<<"a", ".", "p", "n", "g">>, "image/png", 1000),
     File(<<"b", ".", "J", "P", "G">>, "image/jpeg", 2000),
     File(<<"a", ".", "p", "n", "g">>, "", maxSize * 1024 * 1024 - 1),
     File(<<"a", ".", "p", "n", "g">>, "image/png", maxSize * 1024 * 1024),
     File(<<"a", ".", "g", "i", "f">>, "image/png", 1000),
     File(<<"a", ".", "s", "v", "g">>, "image/png", 1000),
     File(<<"p", "n", "g">>, "image/png", 1000)}

\* The batches of one selection: any one file, or several files, each a good
\* one, a too large one or one of a wrong type.
BatchFiles ==
    {File(<<"a", ".", "p", "n", "g">>, "image/png", 1000),
     File(<<"a", ".", "p", "n", "g">>, "image/png", maxSize * 1024 * 1024),
     File(<<"a", ".", "g", "i", "f">>, "image/png", 1000)}

Batches ==
    [1..1 -> CandidateFiles] \cup UNION {[1..n -> BatchFiles] : n \in 2..MaxBatch}

\* What the upload call may do: resolve with a response or throw.
UploadThrew(error) == [threw |-> TRUE, error |-> error]

UploadOutcomes ==
    {Returned([success |-> TRUE, data |-> "/a.png"]),
     Returned([success |-> TRUE, data |-> "/b.png"]),
     Returned([success |-> TRUE]),
     Returned([success |-> TRUE, data |-> ""]),
     Returned([success |-> FALSE, errorMessage |-> "denied"]),
     Returned(<<>>),
     UploadThrew([message |-> "Network Error"]),
     UploadThrew(<<>>)}

\* The values the parent may give the value prop: at most maxCount URLs.
ParentUrls == <<"http://cdn/old1.png", "http://cdn/old2.png", "http://cdn/old3.png">>

ParentValues ==
    IF variant = "multi"
    THEN {Undefined, Str(""), Str(ParentUrls[1])}
         \cup {Arr(SubSeq(ParentUrls, 1, n)) :
                  n \in 0..(IF maxCount < Len(ParentUrls) THEN maxCount ELSE Len(ParentUrls))}
    ELSE {Undefined, Str(""), Str(ParentUrls[1])}

\* The value prop as the multi-image widget keeps it: !value gives [], an array
\* is kept, a string becomes a one-element array.
UrlsOfValue(value) ==
    IF ~Truthy(value) THEN <<>>
    ELSE IF IsArray(value) THEN value.a ELSE <<value.s>>

(***************************************************************************)
(* The handlers of the upload widget                                       *)
(***************************************************************************)
props == <<variant, maxCount, disabled, allowedExtensions>>

RECURSIVE Concat(_)
Concat(ss) == IF ss = <<>> THEN <<>> ELSE Head(ss) \o Concat(Tail(ss))

\* A click on the upload button, or on the re-upload overlay of an image.
OpenModal ==
    /\ ~disabled
    /\ ~modalVisible
    /\ variant = "multi" => Len(imageUrls) < maxCount
    /\ modalVisible' = TRUE
    /\ lastOp' = "open" /\ newFilesCount' = 0 /\ calls' = <<>> /\ messages' = <<>>
    /\ UNCHANGED <<adapterVars, props, candidate, uploading, fileList, imageUrls, imageUrl>>

\* Files are selected or dropped on the Dragger: beforeUpload runs on each file
\* of the batch against the state of this render; the admitted ones enter
\* fileList as uploading and their upload calls start.
SelectFiles(batch) ==
    /\ modalVisible
    /\ ~DraggerDisabled
    /\ variant \in {"multi", "single"}
    /\ variant = "single" => Len(batch) = 1
    /\ LET verdicts == [i \in 1..Len(batch) |-> beforeUpload(batch[i], batch)]
           n == Cardinality({i \in 1..Len(batch) : verdicts[i].admit})
           uids == FreshUids({fileList[i].uid : i \in 1..Len(fileList)}, n)
       IN  /\ Len(fileList) + n <= MaxEntries
           /\ fileList' = fileList \o [j \in 1..n |-> [uid |-> uids[j], status |-> "uploading"]]
           /\ messages' = Concat([i \in 1..Len(batch) |-> verdicts[i].message])
    /\ lastOp' = "select" /\ newFilesCount' = Len(batch) /\ calls' = <<>>
    /\ UNCHANGED <<adapterVars, props, candidate, uploading, modalVisible, imageUrls, imageUrl>>

\* A failure handling that gives up the whole batch: a failed upload marks
\* every entry still uploading as error.
UploadSettlesFailingSiblings(i, outcome) ==
    /\ variant \in {"multi", "single"}
    /\ i \in 1..Len(fileList)
    /\ fileList[i].status = "uploading"
    /\ LET o == handleUploadOutcome(outcome)
       IN  /\ fileList' =
                 [j \in 1..Len(fileList) |->
                     IF j = i \/ (o.status = "error" /\ fileList[j].status = "uploading")
                     THEN SettledEntry(fileList[j], o)
                     ELSE fileList[j]]
           /\ messages' = o.message
    /\ lastOp' = "upload" /\ newFilesCount' = 0 /\ calls' = <<>>
    /\ UNCHANGED <<adapterVars, props, candidate, uploading, modalVisible, imageUrls, imageUrl>>

\* The upload call of entry i settles: handleUpload reports it to the Upload
\* component, whose onChange stores the entry's new status and url.
UploadSettles(i, outcome) ==
    /\ variant \in {"multi", "single"}
    /\ i \in 1..Len(fileList)
    /\ fileList[i].status = "uploading"
    /\ LET o == handleUploadOutcome(outcome)
       IN  /\ fileList' = [fileList EXCEPT ![i] = SettledEntry(@, o)]
           /\ messages' = o.message
    /\ lastOp' = "upload" /\ newFilesCount' = 0 /\ calls' = <<>>
    /\ UNCHANGED <<adapterVars, props, candidate, uploading, modalVisible, imageUrls, imageUrl>>

\* handleConfirm of the multi-image version.
handleConfirmMulti ==
    LET newUploadedFiles == DoneUrls(fileList)
    IN  IF Len(newUploadedFiles) > 0
        THEN LET allUrls == AllUrls(newUploadedFiles)
             IN  /\ imageUrls' = allUrls
                 /\ calls' = Notify(ConfirmResult(allUrls))
                 /\ fileList' = <<>>
                 /\ modalVisible' = FALSE
                 /\ UNCHANGED imageUrl
        ELSE /\ calls' = <<>>
             /\ UNCHANGED <<modalVisible, fileList, imageUrls, imageUrl>>

\* A handleConfirm without the test for a done entry: it closes the dialog and
\* drops the fileList whatever the entries are.
handleConfirmAlwaysCloses ==
    /\ calls' = <<>>
    /\ fileList' = <<>>
    /\ modalVisible' = FALSE
    /\ UNCHANGED <<imageUrls, imageUrl>>

\* handleConfirm of the single-image version: the first done entry with a url.
handleConfirmSingle ==
    LET done == DoneUrls(fileList)
    IN  IF Len(done) > 0
        THEN /\ imageUrl' = Str(done[1])
             /\ calls' = Notify(Str(done[1]))
             /\ fileList' = <<>>
             /\ modalVisible' = FALSE
             /\ UNCHANGED imageUrls
        ELSE /\ calls' = <<>>
             /\ UNCHANGED <<modalVisible, fileList, imageUrls, imageUrl>>

handleConfirm ==
    /\ variant \in {"multi", "single"}
    /\ IF variant = "multi" THEN handleConfirmMulti ELSE handleConfirmSingle
    /\ lastOp' = "confirm" /\ newFilesCount' = 0 /\ messages' = <<>>
    /\ UNCHANGED <<adapterVars, props, candidate, uploading>>

\* A click on the Confirm button, which is disabled without a done entry and
\* while an entry is uploading.
ClickConfirm ==
    /\ modalVisible
    /\ ~ConfirmDisabled
    /\ handleConfirm

\* A handleCancel without the test for an upload under way.
handleCancelAlwaysCloses ==
    /\ variant \in {"multi", "single"}
    /\ modalVisible
    /\ fileList' = <<>> /\ modalVisible' = FALSE
    /\ lastOp' = "cancel" /\ newFilesCount' = 0 /\ calls' = <<>> /\ messages' = <<>>
    /\ UNCHANGED <<adapterVars, props, candidate, uploading, imageUrls, imageUrl>>

\* handleCancel: the Cancel button, and the dialog's close, mask and Esc.
handleCancel ==
    /\ variant \in {"multi", "single"}
    /\ modalVisible
    /\ IF ~SomeStatus(fileList, "uploading")
       THEN fileList' = <<>> /\ modalVisible' = FALSE
       ELSE UNCHANGED <<fileList, modalVisible>>
    /\ lastOp' = "cancel" /\ newFilesCount' = 0 /\ calls' = <<>> /\ messages' = <<>>
    /\ UNCHANGED <<adapterVars, props, candidate, uploading, imageUrls, imageUrl>>

\* onRemove of an entry of the upload list, whose remove control the Upload
\* component shows while the Dragger is enabled.
RemoveEntry(i) ==
    /\ variant \in {"multi", "single"}
    /\ modalVisible
    /\ ~DraggerDisabled
    /\ i \in 1..Len(fileList)
    /\ fileList' = IF variant = "multi"
                   THEN SelectSeq(fileList, LAMBDA item : item.uid # fileList[i].uid)
                   ELSE <<>>
    /\ lastOp' = "removeEntry" /\ newFilesCount' = 0 /\ calls' = <<>> /\ messages' = <<>>
    /\ UNCHANGED <<adapterVars, props, candidate, uploading, modalVisible, imageUrls, imageUrl>>

\* handleRemove of the multi-image version, index counted from 1.
handleRemoveMulti(index) ==
    /\ index \in 1..Len(imageUrls)
    /\ IF maxCount = 1
       THEN imageUrls' = <<>> /\ calls' = Notify(Str(""))
       ELSE LET newUrls == RemoveAt(imageUrls, index)
            IN  imageUrls' = newUrls /\ calls' = Notify(Arr(newUrls))
    /\ UNCHANGED imageUrl

\* A handleRemove that clears the committed URL and tells nobody.
handleRemoveSingleSilent ==
    /\ Truthy(imageUrl)
    /\ imageUrl' = Undefined
    /\ calls' = <<>>
    /\ UNCHANGED imageUrls

\* handleRemove of the single-image version, shown on the preview.
handleRemoveSingle ==
    /\ Truthy(imageUrl)
    /\ imageUrl' = Undefined
    /\ calls' = Notify(Str(""))
    /\ UNCHANGED imageUrls

\* A delete control that is shown, and works, on a disabled widget too.
RemoveCommittedWhenDisabled(index) ==
    /\ IF variant = "multi" THEN handleRemoveMulti(index)
       ELSE index = 1 /\ handleRemoveSingle
    /\ lastOp' = "remove" /\ newFilesCount' = 0 /\ messages' = <<>>
    /\ UNCHANGED <<adapterVars, props, candidate, uploading, modalVisible, fileList>>

\* A click on the delete control of a committed image.
RemoveCommitted(index) ==
    /\ ~disabled
    /\ IF variant = "multi" THEN handleRemoveMulti(index)
       ELSE index = 1 /\ handleRemoveSingle
    /\ lastOp' = "remove" /\ newFilesCount' = 0 /\ messages' = <<>>
    /\ UNCHANGED <<adapterVars, props, candidate, uploading, modalVisible, fileList>>

\* The parent gives a new value prop: the effect copies it into the state.
ValueChange(value) ==
    /\ IF variant = "multi"
       THEN imageUrls' = UrlsOfValue(value) /\ UNCHANGED imageUrl
       ELSE imageUrl' = value /\ UNCHANGED imageUrls
    /\ lastOp' = "value" /\ newFilesCount' = 0 /\ calls' = <<>> /\ messages' = <<>>
    /\ UNCHANGED <<adapterVars, props, candidate, uploading, modalVisible, fileList>>

(***************************************************************************)
(* The handlers of the auto-commit version (index.tsx 463-740): no Confirm *)
(* button, a successful upload commits its URL at once.                    *)
(***************************************************************************)

\* What the upload call may do for the auto-commit version, whose response
\* carries the URL in data.url.
UploadOutcomesAuto ==
    {Returned([success |-> TRUE, data |-> [url |-> "http://cdn/a.png"]]),
     Returned([success |-> TRUE, data |-> [url |-> "http://cdn/b.png"]]),
     Returned([success |-> TRUE, data |-> <<>>]),
     Returned([success |-> TRUE]),
     Returned([success |-> FALSE, errorMessage |-> "denied"]),
     UploadThrew([message |-> "Network Error"])}

\* response.success && response.data?.url
handleUploadOutcomeAuto(outcome) ==
    IF outcome.threw
    THEN [status |-> "error", message |-> <<ErrorText(outcome.error)>>]
    ELSE LET response == outcome.value
             data == Field(response, "data", <<>>)
         IN  IF Field(response, "success", FALSE) /\ Field(data, "url", "") # ""
             THEN [status |-> "done", url |-> data.url,
                   message |-> <<"uploadSuccess">>]
             ELSE [status |-> "error",
                   message |-> <<ErrorText(
                       [message |-> IF Field(response, "errorMessage", "") # ""
                                    THEN response.errorMessage
                                    ELSE "uploadFailed"])>>]

\* One file is selected or dropped (multiple: false): beforeUpload judges it,
\* an admitted file enters fileList and handleUpload starts, setting the flag.
SelectFileAuto(file) ==
    /\ variant = "auto"
    /\ modalVisible
    /\ ~DraggerDisabled
    /\ LET verdict == beforeUpload(file, <<file>>)
           uid == FreshUids({fileList[i].uid : i \in 1..Len(fileList)}, 1)[1]
       IN  /\ verdict.admit => Len(fileList) < MaxEntries
           /\ messages' = verdict.message
           /\ IF verdict.admit
              THEN /\ fileList' = Append(fileList, [uid |-> uid, status |-> "uploading"])
                   /\ uploading' = TRUE
              ELSE UNCHANGED <<fileList, uploading>>
    /\ lastOp' = "select" /\ newFilesCount' = 1 /\ calls' = <<>>
    /\ UNCHANGED <<adapterVars, props, candidate, modalVisible, imageUrls, imageUrl>>

\* A handleUpload that resets the uploading flag on success only, with no
\* finally block.
UploadSettlesAutoKeepsFlagOnFailure(i, outcome) ==
    /\ variant = "auto"
    /\ i \in 1..Len(fileList)
    /\ fileList[i].status = "uploading"
    /\ LET o == handleUploadOutcomeAuto(outcome)
       IN  /\ messages' = o.message
           /\ IF o.status = "done"
              THEN /\ imageUrl' = Str(o.url)
                   /\ fileList' \in
                         {<<>>,
                          [fileList EXCEPT ![i] = [uid |-> @.uid, status |-> "done"]]}
                   /\ modalVisible' = FALSE
                   /\ calls' = Notify(Str(o.url))
                   /\ uploading' = FALSE
              ELSE /\ fileList' = [fileList EXCEPT ![i] = [uid |-> @.uid, status |-> "error"]]
                   /\ calls' = <<>>
                   /\ UNCHANGED <<imageUrl, modalVisible, uploading>>
    /\ lastOp' = "upload" /\ newFilesCount' = 0
    /\ UNCHANGED <<adapterVars, props, candidate, imageUrls>>

\* The upload call of entry i settles. On success handleUpload commits the URL,
\* empties fileList, closes the dialog and notifies; the Upload component's
\* onChange for the done entry follows setFileList([]) in the same tick, so the
\* list ends empty or holding that entry. On failure the entry becomes error.
UploadSettlesAuto(i, outcome) ==
    /\ variant = "auto"
    /\ i \in 1..Len(fileList)
    /\ fileList[i].status = "uploading"
    /\ LET o == handleUploadOutcomeAuto(outcome)
       IN  /\ messages' = o.message
           /\ IF o.status = "done"
              THEN /\ imageUrl' = Str(o.url)
                   /\ fileList' \in
                         {<<>>,
                          [fileList EXCEPT ![i] = [uid |-> @.uid, status |-> "done"]]}
                   /\ modalVisible' = FALSE
                   /\ calls' = Notify(Str(o.url))
              ELSE /\ fileList' = [fileList EXCEPT ![i] = [uid |-> @.uid, status |-> "error"]]
                   /\ calls' = <<>>
                   /\ UNCHANGED <<imageUrl, modalVisible>>
    /\ uploading' = FALSE
    /\ lastOp' = "upload" /\ newFilesCount' = 0
    /\ UNCHANGED <<adapterVars, props, candidate, imageUrls>>

\* Modal.onCancel of the auto-commit version.
CancelAuto ==
    /\ variant = "auto"
    /\ modalVisible
    /\ IF ~uploading
       THEN modalVisible' = FALSE /\ fileList' = <<>>
       ELSE UNCHANGED <<modalVisible, fileList>>
    /\ lastOp' = "cancel" /\ newFilesCount' = 0 /\ calls' = <<>> /\ messages' = <<>>
    /\ UNCHANGED <<adapterVars, props, candidate, uploading, imageUrls, imageUrl>>

Next ==
    \/ OpenModal
    \/ \E batch \in Batches : SelectFiles(batch)
    \/ \E i \in 1..MaxEntries, outcome \in UploadOutcomes : UploadSettles(i, outcome)
    \/ ClickConfirm
    \/ handleCancel
    \/ \E i \in 1..MaxEntries : RemoveEntry(i)
    \/ \E index \in 1..MaxCountBound : RemoveCommitted(index)
    \/ \E value \in ParentValues : ValueChange(value)
    \/ \E file \in CandidateFiles : SelectFileAuto(file)
    \/ \E i \in 1..MaxEntries, outcome \in UploadOutcomesAuto : UploadSettlesAuto(i, outcome)
    \/ CancelAuto

\* The widget as constructed: closed, with an empty fileList and the value prop
\* copied into the committed state.
Init ==
    /\ variant \in {"multi", "single", "auto"}
    /\ maxCount \in IF variant = "multi" THEN 1..MaxCountBound ELSE {1}
    /\ disabled \in BOOLEAN
    /\ allowedExtensions = DefaultAllowedExtensions
    /\ candidate = NoFile
    /\ modalVisible = FALSE
    /\ fileList = <<>>
    /\ \E value \in ParentValues :
          /\ imageUrls = IF variant = "multi" THEN UrlsOfValue(value) ELSE <<>>
          /\ imageUrl = IF variant = "multi" THEN Undefined ELSE value
    /\ uploading = FALSE
    /\ lastOp = "init" /\ newFilesCount = 0 /\ calls = <<>> /\ messages = <<>>
    /\ AdapterIdle

\* The widget driven through its controls.
Spec == Init /\ [][Next]_vars

\* The widget with handleConfirm of the open dialog also invoked directly,
\* whatever the state of the Confirm button.
ConfirmHandler == modalVisible /\ handleConfirm

NextHandlers == Next \/ ConfirmHandler

SpecHandlers == Init /\ [][NextHandlers]_vars

\* The widget under a parent that gives a new value prop only while the dialog
\* is closed.
ValueChangeWhileClosed(value) == ~modalVisible /\ ValueChange(value)

NextValueWhileClosed ==
    \/ OpenModal
    \/ \E batch \in Batches : SelectFiles(batch)
    \/ \E i \in 1..MaxEntries, outcome \in UploadOutcomes : UploadSettles(i, outcome)
    \/ ClickConfirm
    \/ handleCancel
    \/ \E i \in 1..MaxEntries : RemoveEntry(i)
    \/ \E index \in 1..MaxCountBound : RemoveCommitted(index)
    \/ \E value \in ParentValues : ValueChangeWhileClosed(value)
    \/ \E file \in CandidateFiles : SelectFileAuto(file)
    \/ \E i \in 1..MaxEntries, outcome \in UploadOutcomesAuto : UploadSettlesAuto(i, outcome)
    \/ CancelAuto

SpecValueWhileClosed == Init /\ [][NextValueWhileClosed]_vars

\* Every upload call that was started settles: the call of each entry that is
\* uploading resolves or throws in the end.
UploadsSettle ==
    /\ \A i \in 1..MaxEntries :
          WF_vars(\E outcome \in UploadOutcomes : UploadSettles(i, outcome))
    /\ \A i \in 1..MaxEntries :
          WF_vars(\E outcome \in UploadOutcomesAuto : UploadSettlesAuto(i, outcome))

\* The widget driven through its controls, with every upload call settling.
SpecUploadsSettle == Spec /\ UploadsSettle

(***************************************************************************)
(* Properties of the upload widget                                         *)
(***************************************************************************)
Range(s) == {s[i] : i \in 1..Len(s)}

\* The step just taken is op.
Did(op) == lastOp' = op

\* The committed value, as the callbacks would be given it.
Committed ==
    IF variant # "multi" THEN imageUrl
    ELSE IF maxCount = 1
         THEN (IF imageUrls = <<>> THEN Undefined ELSE Str(imageUrls[1]))
         ELSE Arr(imageUrls)

\* C7: in the multi-image widget the committed URL sequence never holds more
\* than maxCount URLs, whatever files are selected, however the uploads end,
\* and whatever is confirmed, cancelled or removed.
C7_CommittedWithinMaxCount ==
    variant = "multi" => Len(imageUrls) <= maxCount

\* C7 witness: a Confirm, with an image already committed and more done entries
\* than there was room for, has filled the committed sequence to maxCount.
C7_Witness ==
    /\ variant = "multi"
    /\ maxCount = MaxCountBound
    /\ lastOp = "confirm"
    /\ ~modalVisible
    /\ Len(imageUrls) = maxCount
    /\ imageUrls[1] = ParentUrls[1]
    /\ calls = Notify(Arr(imageUrls))

\* A batch of n files overflows maxCount: with the committed URLs and the
\* uploading and done entries there would be more than maxCount images.
Overflows(n) ==
    Len(imageUrls)
      + Cardinality({i \in 1..Len(fileList) : fileList[i].status \in {"uploading", "done"}})
      + n > maxCount

\* C8: a selection of the multi-image widget whose batch overflows maxCount
\* adds no file to fileList and emits the "too many images" message for each
\* of its files; a batch that does not overflow emits no such message.
C8_CountGateRejectsWholeBatch ==
    [][(Did("select") /\ variant = "multi") =>
          IF Overflows(newFilesCount')
          THEN /\ fileList' = fileList
               /\ messages' = [i \in 1..newFilesCount' |-> "tooMany"]
          ELSE "tooMany" \notin Range(messages')]_vars

\* C8 witness: a batch of two has been rejected as a whole although one more
\* file would have fitted.
C8_Witness ==
    /\ variant = "multi"
    /\ lastOp = "select"
    /\ newFilesCount = 2
    /\ messages = <<"tooMany", "tooMany">>
    /\ Len(imageUrls) + CountPending(fileList) + 1 = maxCount

\* C9: with maxCount = 1 and exactly one done entry in fileList, Confirm makes
\* that entry's URL the committed value and gives it to onChange and onSuccess
\* as a bare string.
C9_ConfirmCommitsTheDoneUrl ==
    [][(Did("confirm") /\ maxCount = 1 /\ Len(DoneUrls(fileList)) = 1) =>
          LET url == Str(DoneUrls(fileList)[1])
          IN  /\ Committed' = url
              /\ calls' = Notify(url)]_vars

\* C10: handleConfirm without a done entry changes nothing: the dialog stays
\* open, fileList and the committed value are as before, and no callback is
\* invoked.
C10_ConfirmWithoutDoneIsNoOp ==
    [][(Did("confirm") /\ modalVisible /\ ~SomeStatus(fileList, "done")) =>
          /\ modalVisible'
          /\ fileList' = fileList
          /\ Committed' = Committed
          /\ UNCHANGED <<imageUrls, imageUrl>>
          /\ calls' = <<>>]_vars

\* C10 witness: handleConfirm has run on a dialog whose only entries are an
\* uploading or a failed one, and the dialog is still open with them.
C10_Witness ==
    /\ lastOp = "confirm"
    /\ modalVisible
    /\ fileList # <<>>
    /\ ~SomeStatus(fileList, "done")
    /\ calls = <<>>

\* The first n elements of s, all of s when it is shorter.
FirstN(s, n) == [i \in 1..(IF Len(s) < n THEN Len(s) ELSE n) |-> s[i]]

\* The URLs of the done entries of list, in the order of the list.
UrlsOfDone(list) ==
    LET done == SelectSeq(list, LAMBDA e : e.status = "done")
    IN  [i \in 1..Len(done) |-> done[i].url]

\* C11: in the multi-image widget with maxCount > 1, Confirm with a done entry
\* commits the first maxCount of the old committed URLs followed by the done
\* entries' URLs in fileList order, calls onChange then onSuccess once each with
\* that sequence, empties fileList and closes the dialog; error entries add
\* no URL.
C11_ConfirmAppendsDoneUrls ==
    [][(Did("confirm") /\ variant = "multi" /\ maxCount > 1
          /\ SomeStatus(fileList, "done")) =>
          LET committed == FirstN(imageUrls \o UrlsOfDone(fileList), maxCount)
          IN  /\ imageUrls' = committed
              /\ calls' = <<Call("onChange", Arr(committed)),
                            Call("onSuccess", Arr(committed))>>
              /\ fileList' = <<>>
              /\ ~modalVisible']_vars

\* C11 witness: a Confirm has appended a new URL to the one committed before.
C11_Witness ==
    /\ variant = "multi" /\ maxCount = 2
    /\ lastOp = "confirm"
    /\ imageUrls = <<ParentUrls[1], "http://cdn/b.png">>
    /\ fileList = <<>>
    /\ ~modalVisible
    /\ calls = <<Call("onChange", Arr(imageUrls)), Call("onSuccess", Arr(imageUrls))>>

\* C12: Cancel with no uploading entry empties fileList and closes the dialog,
\* the committed value stays and no callback is called (done entries are
\* dropped); Cancel with an uploading entry changes nothing, the dialog stays
\* open with its fileList.
C12_CancelDiscardsOrIsBlocked ==
    [][Did("cancel") =>
          /\ UNCHANGED <<imageUrls, imageUrl>>
          /\ calls' = <<>>
          /\ IF ~SomeStatus(fileList, "uploading")
             THEN fileList' = <<>> /\ ~modalVisible'
             ELSE fileList' = fileList /\ modalVisible /\ modalVisible']_vars

\* C12 witness: a Cancel has closed the dialog over a committed image.
C12_Witness ==
    /\ lastOp = "cancel"
    /\ ~modalVisible
    /\ fileList = <<>>
    /\ imageUrls # <<>> \/ Truthy(imageUrl)
    /\ calls = <<>>

\* C13: in single-image mode (maxCount = 1) removing the committed image leaves
\* the committed value empty and calls onChange and onSuccess with ''.
C13_RemoveSingleYieldsEmpty ==
    [][(Did("remove") /\ maxCount = 1) =>
          /\ imageUrls' = <<>>
          /\ imageUrl' = Undefined
          /\ calls' = <<Call("onChange", Str("")), Call("onSuccess", Str(""))>>]_vars

\* C13 witness: the single-image version has removed its committed image.
C13_Witness ==
    /\ variant = "single"
    /\ lastOp = "remove"
    /\ imageUrl = Undefined
    /\ calls = <<Call("onChange", Str("")), Call("onSuccess", Str(""))>>

SuccessWithData(outcome) ==
    /\ ~outcome.threw
    /\ Field(outcome.value, "success", FALSE)
    /\ "data" \in DOMAIN outcome.value

\* The upload call returned success = true and a data field that is not ''.
SuccessWithNonEmptyData(outcome) ==
    SuccessWithData(outcome) /\ outcome.value.data # ""

\* One step of the entries' lifecycle in the multi-image and single-image
\* versions. An entry that stays in fileList keeps its status and URL, or goes
\* from uploading to done or error as its upload settles; the settled entry is
\* done exactly when Success holds of the outcome, and then carries the
\* resolved URL; otherwise it is error and carries none; every entry is
\* uploading, done or error, and carries a URL exactly when done.
LifecycleStep(Success(_)) ==
    variant \in {"multi", "single"} =>
        /\ \A i \in 1..Len(fileList), j \in 1..Len(fileList') :
              fileList[i].uid = fileList'[j].uid =>
                  \/ fileList'[j] = fileList[i]
                  \/ /\ Did("upload")
                     /\ fileList[i].status = "uploading"
                     /\ fileList'[j].status \in {"done", "error"}
        /\ \A i \in 1..MaxEntries, outcome \in UploadOutcomes :
              (Did("upload") /\ UploadSettles(i, outcome)) =>
                  LET e == fileList'[i]
                  IN  IF Success(outcome)
                      THEN e.status = "done" /\ e.url = API_URL \o outcome.value.data
                      ELSE e.status = "error"
        /\ \A j \in 1..Len(fileList') :
              /\ fileList'[j].status \in {"uploading", "done", "error"}
              /\ "url" \in DOMAIN fileList'[j] <=> fileList'[j].status = "done"

\* C15 as stated: entries go uploading -> done or uploading -> error, done and
\* error are final, and an entry becomes done, with its URL, exactly when the
\* upload call returns success = true with a data field present.
C15_Original == [][LifecycleStep(SuccessWithData)]_vars

\* C15 amended: as C15, with done exactly when the upload call returns
\* success = true with a data field that is not the empty string.
C15_EntryLifecycle == [][LifecycleStep(SuccessWithNonEmptyData)]_vars

\* C15 witness: of two entries one has ended done with its URL, the other
\* error without one.
C15_Witness ==
    /\ variant = "multi"
    /\ lastOp = "upload"
    /\ Len(fileList) = 2
    /\ fileList[1] = [uid |-> 1, status |-> "error"]
    /\ fileList[2] = [uid |-> 2, status |-> "done", url |-> "http://cdn/a.png"]

\* ---------------------------------------------------------------------------
\* The validation gates, tried on one file at a time: the file and the
\* allowedExtensions prop are drawn at construction, the dialog is opened and
\* the file is offered to the Dragger.

GateNames ==
    {<<"a", ".", "p", "n", "g">>,
     <<"a", ".", "P", "n", "G">>,
     <<"b", ".", "J", "P", "G">>,
     <<"a", ".", "j", "p", "e", "g">>,
     <<"a", ".", "s", "v", "g">>,
     <<"a", ".", "g", "i", "f">>,
     <<"a", ".", "G", "I", "F">>,
     <<"a", ".", "p", "n", "g", ".", "g", "i", "f">>,
     <<"a", ".", "g", "i", "f", ".", "p", "n", "g">>,
     <<"a", ".">>,
     <<"p", "n", "g">>}

\* file.type: '' when the browser reports none.
GateTypes ==
    {"", "image/png", "image/jpeg", "image/jpg", "image/svg+xml", "image/gif", "text/plain"}

GateSizes ==
    {0, 1000, maxSize * 1024 * 1024 - 1, maxSize * 1024 * 1024, maxSize * 1024 * 1024 + 1}

GateFiles == {File(n, t, z) : n \in GateNames, t \in GateTypes, z \in GateSizes}

\* Values of the allowedExtensions prop: its default, and lists a parent may
\* pass instead.
AllowedExtensionsChoices ==
    {DefaultAllowedExtensions,
     <<<<"g", "i", "f">>>>,
     <<<<"P", "N", "G">>, <<"g", "i", "f">>>>}

\* The candidate is selected or dropped on the Dragger.
OfferCandidate == SelectFiles(<<candidate>>)

OfferCandidateAuto == SelectFileAuto(candidate)

InitGates ==
    /\ variant \in {"multi", "single", "auto"}
    /\ maxCount \in 1..MaxCountBound
    /\ variant # "multi" => maxCount = 1
    /\ disabled = FALSE
    /\ allowedExtensions \in AllowedExtensionsChoices
    /\ candidate \in GateFiles
    /\ modalVisible = FALSE
    /\ fileList = <<>>
    /\ imageUrls = <<>>
    /\ imageUrl = Undefined
    /\ uploading = FALSE
    /\ lastOp = "init" /\ newFilesCount = 0 /\ calls = <<>> /\ messages = <<>>
    /\ AdapterIdle

NextGates ==
    \/ OpenModal
    \/ OfferCandidate
    \/ OfferCandidateAuto
    \/ handleCancel
    \/ CancelAuto

SpecGates == InitGates /\ [][NextGates]_vars

\* The candidate was offered in this step, and was refused or admitted.
Offered == Did("select") /\ candidate # NoFile
Refused == fileList' = fileList /\ messages' # <<>>
Admitted ==
    /\ Len(fileList') = Len(fileList) + 1
    /\ SubSeq(fileList', 1, Len(fileList)) = fileList
    /\ messages' = <<>>

\* The extension of a name as the specification words it: the text after the
\* last '.', compared with the allowed extensions without regard to case.
HasDot(name) == \E k \in 1..Len(name) : name[k] = "."

LastSegment(name) ==
    LET k == CHOOSE k \in 1..Len(name) :
                 name[k] = "." /\ \A j \in (k + 1)..Len(name) : name[j] # "."
    IN  SubSeq(name, k + 1, Len(name))

CasePairs ==
    {{"p", "P"}, {"n", "N"}, {"g", "G"}, {"j", "J"}, {"s", "S"}, {"v", "V"},
     {"i", "I"}, {"f", "F"}, {"e", "E"}}

SameIgnoringCase(s, t) ==
    /\ Len(s) = Len(t)
    /\ \A i \in 1..Len(s) : s[i] = t[i] \/ {s[i], t[i]} \in CasePairs

ExtensionAllowed(name) ==
    /\ HasDot(name)
    /\ \E i \in 1..Len(allowedExtensions) :
          SameIgnoringCase(allowedExtensions[i], LastSegment(name))

\* C16: a file whose name has no '.', or whose extension, the text after the
\* last '.' compared without regard to case, is not an allowed one, is refused
\* whatever type it declares: fileList keeps its entries and an error message
\* is shown.
C16_ExtensionGateRejects ==
    [][(Offered /\ ~ExtensionAllowed(candidate.name)) => Refused]_vars

\* C16 witness: a.gif declaring image/png, a type of the allowed extension
\* png, has been offered under the default extensions and refused for its
\* type of file.
C16_Witness ==
    /\ lastOp = "select"
    /\ allowedExtensions = DefaultAllowedExtensions
    /\ candidate = File(<<"a", ".", "g", "i", "f">>, "image/png", 1000)
    /\ fileList = <<>>
    /\ messages = <<"badType">>

\* The extension -> MIME table as the specification words it: the known sets
\* of png, jpeg, jpg and svg, looked up without regard to case.
KnownMimeTable ==
    {<<<<"p", "n", "g">>, {"image/png"}>>,
     <<<<"j", "p", "e", "g">>, {"image/jpeg", "image/jpg"}>>,
     <<<<"j", "p", "g">>, {"image/jpeg", "image/jpg"}>>,
     <<<<"s", "v", "g">>, {"image/svg+xml"}>>}

HasKnownSet(name) ==
    \E row \in KnownMimeTable : SameIgnoringCase(row[1], LastSegment(name))

KnownSet(name) ==
    UNION {row[2] : row \in {r \in KnownMimeTable : SameIgnoringCase(r[1], LastSegment(name))}}

\* The candidate has passed the size gate and the extension gate.
PassesExtensionGate ==
    /\ candidate.size < maxSize * 1024 * 1024
    /\ ExtensionAllowed(candidate.name)

\* The MIME gate as the specification words it refuses the candidate.
MimeGateRefuses ==
    /\ candidate.type # ""
    /\ HasKnownSet(candidate.name)
    /\ candidate.type \notin KnownSet(candidate.name)

\* C17: a file that has passed the extension gate is refused by the MIME gate
\* only when it reports a type, its extension has a known set in the table and
\* the type is not in that set; a file with no reported type, and a file whose
\* allowed extension has no entry in the table, is admitted.
C17_MimeGateRejectsOnlyKnownMismatch ==
    [][(Offered /\ PassesExtensionGate) =>
          IF MimeGateRefuses THEN Refused ELSE Admitted]_vars

\* What the code does with a file that has passed the extension gate: a
\* reported type is refused unless it is in the table's set of the extension,
\* the empty set when the table has no entry.
C17_CodeRejectsTypedFileWithoutEntry ==
    [][(Offered /\ PassesExtensionGate) =>
          IF candidate.type # "" /\ candidate.type \notin KnownSet(candidate.name)
          THEN Refused ELSE Admitted]_vars

\* Under the default allowedExtensions every allowed extension has an entry.
C17_HoldsUnderDefaultExtensions ==
    [][(Offered /\ PassesExtensionGate /\ allowedExtensions = DefaultAllowedExtensions) =>
          IF MimeGateRefuses THEN Refused ELSE Admitted]_vars

\* C18: the size gate admits a file only if its size in bytes is strictly
\* less than maxSize * 1024 * 1024; a file of exactly maxSize MB, or larger,
\* is refused with the size message and fileList keeps its entries.
C18_SizeGateIsStrict ==
    [][Offered =>
          /\ fileList' # fileList => candidate.size < maxSize * 1024 * 1024
          /\ candidate.size >= maxSize * 1024 * 1024 =>
                Refused /\ messages' = <<"tooLarge">>]_vars

\* C18 witness: a.png of type image/png and of exactly maxSize MB has been
\* offered and refused for its size.
C18_Witness ==
    /\ lastOp = "select"
    /\ candidate = File(<<"a", ".", "p", "n", "g">>, "image/png", maxSize * 1024 * 1024)
    /\ fileList = <<>>
    /\ messages = <<"tooLarge">>

EntryOfOutcome(uid, outcome) ==
    IF SuccessWithNonEmptyData(outcome)
    THEN [uid |-> uid, status |-> "done", url |-> API_URL \o outcome.value.data]
    ELSE [uid |-> uid, status |-> "error"]

\* C20: upload calls of one batch complete in any order, and each completion
\* changes only the entry it owns: that entry takes the status, and URL, that
\* its own outcome gives, whatever state its siblings are in, and every
\* sibling keeps its status and URL; a failed upload marks its entry alone.
C20_CompletionChangesOwnEntryOnly ==
    [][\A i \in 1..MaxEntries, outcome \in UploadOutcomes :
          (Did("upload") /\ UploadSettles(i, outcome)) =>
              /\ Len(fileList') = Len(fileList)
              /\ fileList'[i] = EntryOfOutcome(fileList[i].uid, outcome)
              /\ \A j \in 1..Len(fileList) : j # i => fileList'[j] = fileList[j]]_vars

\* C20 witness: of two entries admitted in one batch the second has completed
\* first, and failed: it alone is error, the first is still uploading.
C20_Witness ==
    /\ variant = "multi"
    /\ lastOp = "upload"
    /\ Len(fileList) = 2
    /\ fileList[1] = [uid |-> 1, status |-> "uploading"]
    /\ fileList[2] = [uid |-> 2, status |-> "error"]

\* The uids of the entries whose upload call is outstanding.
UploadingUids(list) ==
    {list[i].uid : i \in {k \in 1..Len(list) : list[k].status = "uploading"}}

\* One step of the multi-image and single-image versions: a closed dialog has
\* no entry uploading, before and after the step, and while an entry is
\* uploading the step leaves the dialog open and every such entry in fileList.
NoCloseWhileUploadingStep ==
    variant \in {"multi", "single"} =>
        /\ ~modalVisible => ~SomeStatus(fileList, "uploading")
        /\ ~modalVisible' => ~SomeStatus(fileList', "uploading")
        /\ SomeStatus(fileList, "uploading") =>
              /\ modalVisible'
              /\ \A u \in UploadingUids(fileList) :
                    \E j \in 1..Len(fileList') : fileList'[j].uid = u

\* C21: in the multi-image and single-image versions a closed dialog has no
\* entry uploading in any reachable state; while an entry is uploading no
\* step, Cancel, Confirm and the dialog's close control included, closes the
\* dialog or takes that entry out of fileList, so the outcome of an upload
\* under way always finds its entry.
C21_NoCloseWhileUploading == [][NoCloseWhileUploadingStep]_vars

\* C21 witness: Cancel has been tried with one entry done and another still
\* uploading; the dialog is open and both entries are there.
C21_Witness ==
    /\ variant = "multi"
    /\ lastOp = "cancel"
    /\ modalVisible
    /\ Len(fileList) = 2
    /\ fileList[1].status = "done"
    /\ fileList[2].status = "uploading"

\* The committed URLs and the entries uploading or done fit in maxCount.
WithinMaxCount(urls, list) ==
    Len(urls) + Cardinality({i \in 1..Len(list) : list[i].status \in {"uploading", "done"}})
        <= maxCount

\* One step of the multi-image version: the committed URLs and the uploading
\* and done entries fit in maxCount before and after it, and a Confirm with a
\* done entry commits the old committed sequence followed by every done URL.
RoomForEveryDoneStep ==
    variant = "multi" =>
        /\ WithinMaxCount(imageUrls, fileList)
        /\ WithinMaxCount(imageUrls', fileList')
        /\ (Did("confirm") /\ SomeStatus(fileList, "done")) =>
              imageUrls' = imageUrls \o UrlsOfDone(fileList)

CancelWouldClose == ENABLED ((handleCancel \/ CancelAuto) /\ ~modalVisible')

\* No upload holds the dialog: no entry is uploading, the uploading flag is
\* down, and the dialog, if it is still open, closes on Cancel.
Unblocked ==
    /\ ~SomeStatus(fileList, "uploading")
    /\ ~uploading
    /\ modalVisible => CancelWouldClose

\* C23: with every started upload call settling, an open dialog always comes
\* to a state with no entry uploading and, in the auto-commit version, the
\* uploading flag down after a success and after a failure alike, where Cancel
\* is enabled and closes the dialog: the dialog does not stay blocked forever.
C23_DialogUnblocks == modalVisible ~> Unblocked

\* C23 witness: the upload of the auto-commit version has failed; the dialog
\* is still open, its entry is error and the uploading flag is down again.
C23_Witness ==
    /\ variant = "auto"
    /\ lastOp = "upload"
    /\ modalVisible
    /\ Len(fileList) = 1 /\ fileList[1].status = "error"
    /\ ~uploading
    /\ CancelWouldClose

=============================================================================
